---------------------------- MODULE Spec2Model ----------------------------
(***************************************************************************)
(* A model of pagerduty_shift_swap.py: one process that resolves two       *)
(* users and a schedule, renders the schedule for two 8-day windows,       *)
(* filters each user's shifts and creates reciprocal overrides.            *)
(*                                                                         *)
(* The remote service is the environment: every response (a failure, an    *)
(* empty or non-empty search result, the rendered entries) is chosen       *)
(* nondeterministically where the request is made.  It renders a window    *)
(* it has rendered before as it did then, with or without the overrides    *)
(* created since.  Strings that the code parses or formats (the two        *)
(* dates) are sequences of one-character strings; strings it only passes   *)
(* along are TLA+ strings.  The log holds the logging.info and             *)
(* logging.error calls; logging.debug is left out.                         *)
(***************************************************************************)
EXTENDS Integers, Sequences, FiniteSets, TLC

(***************************************************************************)
(* Bounds of the model.                                                    *)
(***************************************************************************)
\* longest list of rendered schedule entries the remote returns
MaxEntries == 2
\* longest list of matches a user or schedule search returns
MaxMatches == 2
\* how many times the tool is run with the same arguments
MaxRuns == 2

(***************************************************************************)
(* Python values.                                                          *)
(***************************************************************************)
\* Values of more than one Python type are records, so that any two of them
\* can be compared: None, a str, an exception, a dict of the remote's JSON.
None == [type |-> "NoneType"]

Str(s) == [type |-> "str", value |-> s]

ValueError == [type |-> "ValueError"]

OverflowError == [type |-> "OverflowError"]

\* bool(x) of a value that is None, a str or a non-empty dict
Truthy(x) == x # None /\ x # Str("")

(***************************************************************************)
(* datetime: strptime(s, "%Y-%m-%d") + timedelta(days=8), strftime.        *)
(***************************************************************************)
Digits == <<"0", "1", "2", "3", "4", "5", "6", "7", "8", "9">>

IsDigit(c) == \E i \in 1..10 : Digits[i] = c

DigitVal(c) == (CHOOSE i \in 1..10 : Digits[i] = c) - 1

\* the number a non-empty sequence of digit characters writes
RECURSIVE NumVal(_)
NumVal(cs) ==
    IF cs = <<>> THEN 0
    ELSE 10 * NumVal(SubSeq(cs, 1, Len(cs) - 1)) + DigitVal(cs[Len(cs)])

AllDigits(cs) == \A i \in 1..Len(cs) : IsDigit(cs[i])

\* positions of "-" in s
DashPositions(s) == {i \in 1..Len(s) : s[i] = "-"}

\* %Y is (?P<Y>\d\d\d\d)
MatchesY(cs) == Len(cs) = 4 /\ AllDigits(cs)

\* %m is (?P<m>1[0-2]|0[1-9]|[1-9])
MatchesM(cs) ==
    /\ Len(cs) \in {1, 2}
    /\ AllDigits(cs)
    /\ NumVal(cs) \in 1..12

\* %d is (?P<d>3[01]|[12]\d|0[1-9]|[1-9]| [1-9])
MatchesD(cs) ==
    \/ /\ Len(cs) \in {1, 2}
       /\ AllDigits(cs)
       /\ NumVal(cs) \in 1..31
    \/ /\ Len(cs) = 2
       /\ cs[1] = " "
       /\ IsDigit(cs[2])
       /\ DigitVal(cs[2]) \in 1..9

is_leap(y) == y % 4 = 0 /\ (y % 100 # 0 \/ y % 400 = 0)

DAYS_IN_MONTH == <<31, 28, 31, 30, 31, 30, 31, 31, 30, 31, 30, 31>>

days_in_month(y, m) == IF m = 2 /\ is_leap(y) THEN 29 ELSE DAYS_IN_MONTH[m]

RECURSIVE DaysBeforeMonthTable(_)
DaysBeforeMonthTable(m) ==
    IF m = 1 THEN 0 ELSE DaysBeforeMonthTable(m - 1) + DAYS_IN_MONTH[m - 1]

days_before_month(y, m) ==
    DaysBeforeMonthTable(m) + (IF m > 2 /\ is_leap(y) THEN 1 ELSE 0)

days_before_year(y) ==
    LET y1 == y - 1
    IN  y1 * 365 + (y1 \div 4) - (y1 \div 100) + (y1 \div 400)

ymd2ord(date) ==
    days_before_year(date.year) + days_before_month(date.year, date.month)
        + date.day

\* date.max.toordinal()
MAXORDINAL == ymd2ord([year |-> 9999, month |-> 12, day |-> 31])

DI400Y == days_before_year(401)
DI100Y == days_before_year(101)
DI4Y == days_before_year(5)

ord2ymd(ordinal) ==
    LET n0 == ordinal - 1
        n400 == n0 \div DI400Y
        r400 == n0 % DI400Y
        n100 == r400 \div DI100Y
        r100 == r400 % DI100Y
        n4 == r100 \div DI4Y
        r4 == r100 % DI4Y
        n1 == r4 \div 365
        n == r4 % 365
        year == n400 * 400 + 1 + n100 * 100 + n4 * 4 + n1
        leapyear == n1 = 3 /\ (n4 # 24 \/ n100 = 3)
        month0 == (n + 50) \div 32
        preceding0 == DaysBeforeMonthTable(month0)
                        + (IF month0 > 2 /\ leapyear THEN 1 ELSE 0)
        month == IF preceding0 > n THEN month0 - 1 ELSE month0
        preceding ==
            IF preceding0 > n
            THEN preceding0 - (DAYS_IN_MONTH[month]
                                 + (IF month = 2 /\ leapyear THEN 1 ELSE 0))
            ELSE preceding0
    IN  IF n1 = 4 \/ n100 = 4
        THEN [year |-> year - 1, month |-> 12, day |-> 31]
        ELSE [year |-> year, month |-> month, day |-> n - preceding + 1]

\* datetime.strptime(s, "%Y-%m-%d"): a date, or ValueError when s does not
\* match the format or names no day of the calendar
strptime(s) ==
    LET dashes == DashPositions(s)
    IN  IF Cardinality(dashes) # 2 THEN ValueError
        ELSE
          LET p == CHOOSE i \in dashes : \A j \in dashes : i <= j
              q == CHOOSE i \in dashes : \A j \in dashes : j <= i
              ys == SubSeq(s, 1, p - 1)
              ms == SubSeq(s, p + 1, q - 1)
              ds == SubSeq(s, q + 1, Len(s))
          IN  IF ~(MatchesY(ys) /\ MatchesM(ms) /\ MatchesD(ds))
              THEN ValueError
              ELSE
                LET y == NumVal(ys)
                    m == NumVal(ms)
                    d == IF ds[1] = " " THEN DigitVal(ds[2]) ELSE NumVal(ds)
                IN  IF y < 1 \/ d > days_in_month(y, m) THEN ValueError
                    ELSE [year |-> y, month |-> m, day |-> d]

\* the days of timedelta(days=8)
WINDOW_DAYS == 8

\* date + timedelta(days=delta): a date, or OverflowError past date.max
add_days(date, delta) ==
    LET o == ymd2ord(date) + delta
    IN  IF o < 1 \/ o > MAXORDINAL THEN OverflowError ELSE ord2ymd(o)

\* n written with at least `width` digits, zero padded
RECURSIVE ZeroPad(_, _)
ZeroPad(n, width) ==
    IF width <= 1 /\ n < 10 THEN <<Digits[n + 1]>>
    ELSE ZeroPad(n \div 10, width - 1) \o <<Digits[(n % 10) + 1]>>

\* date.strftime("%Y-%m-%d"), which is the C library's strftime: %m and %d
\* are two digits everywhere, while %Y of a year before 1000 is four digits,
\* zero padded, on some platforms and the bare number on others (glibc)
strftime(date) ==
    { ZeroPad(date.year, width) \o <<"-">> \o ZeroPad(date.month, 2)
        \o <<"-">> \o ZeroPad(date.day, 2) : width \in {1, 4} }

\* lines 116 and 118: the window's end date from its start date; the values
\* the expression can have, or the exception it raises
end_date(start_date) ==
    LET parsed == strptime(start_date)
    IN  IF parsed = ValueError THEN {ValueError}
        ELSE LET shifted == add_days(parsed, WINDOW_DAYS)
             IN  IF shifted = OverflowError THEN {OverflowError}
                 ELSE {Str(text) : text \in strftime(shifted)}

IsError(x) == x \in {ValueError, OverflowError}

(***************************************************************************)
(* The remote service's data, as far as the program reads it.              *)
(***************************************************************************)
\* the user the API token belongs to, and the users a search can match
Me == [id |-> "U1", summary |-> "Alice"]

UserPool == {Me, [id |-> "U2", summary |-> "Bob"]}

SchedulePool == {[id |-> "PSCHED1"]}

\* (start, end) of the rendered entries
Intervals ==
    { <<"2024-01-01T00:00:00Z", "2024-01-08T00:00:00Z">>,
      <<"2024-01-08T00:00:00Z", "2024-01-15T00:00:00Z">> }

EntryPool ==
    { [user |-> [id |-> u.id], start |-> iv[1], end |-> iv[2]] :
        u \in UserPool, iv \in Intervals }

\* the sequences over S of length at most n
SeqsUpTo(S, n) == UNION {[1..k -> S] : k \in 0..n}

\* response.json()['users'] of GET /users
UserMatches == SeqsUpTo(UserPool, MaxMatches)

\* response.json()['schedules'] of GET /schedules
ScheduleMatches == SeqsUpTo(SchedulePool, MaxMatches)

\* final_schedule.rendered_schedule_entries of GET /schedules/{id}
RenderedEntries == SeqsUpTo(EntryPool, MaxEntries)

\* the few rendered lists of the specification that varies the dates
FewRenderedEntries ==
    { <<>> } \cup { <<e>> : e \in {x \in EntryPool : x.start = "2024-01-01T00:00:00Z"} }

(***************************************************************************)
(* The command line.                                                       *)
(***************************************************************************)
D(y, m, d) == y \o <<"-">> \o m \o <<"-">> \o d

Week1 == D(<<"2", "0", "2", "4">>, <<"0", "1">>, <<"0", "1">>)

Week2 == D(<<"2", "0", "2", "4">>, <<"0", "1">>, <<"0", "8">>)

NoDate == D(<<"2", "0", "2", "4">>, <<"0", "2">>, <<"3", "0">>)

\* --current_user_week and --other_user_week of the main specification
Weeks == {Week1, Week2, NoDate}

\* the dates of the specification that varies the dates: month ends, leap
\* and common years, unpadded fields, a year before 1000, the end of the
\* calendar, no date
BoundaryWeeks ==
    { Week1, Week2, NoDate,
      D(<<"0", "0", "9", "9">>, <<"1", "2">>, <<"2", "0">>),
      D(<<"2", "0", "2", "4">>, <<"0", "2">>, <<"2", "2">>),
      D(<<"2", "0", "2", "3">>, <<"0", "2">>, <<"2", "2">>),
      D(<<"2", "0", "2", "3">>, <<"1", "2">>, <<"2", "5">>),
      D(<<"1", "9", "0", "0">>, <<"0", "2">>, <<"2", "1">>),
      D(<<"2", "0", "0", "0">>, <<"0", "2">>, <<"2", "9">>),
      D(<<"2", "0", "2", "4">>, <<"4">>, <<"2", "3">>),
      D(<<"2", "0", "2", "4">>, <<"1", "1">>, <<" ", "9">>),
      D(<<"9", "9", "9", "9">>, <<"1", "2">>, <<"2", "3">>),
      D(<<"9", "9", "9", "9">>, <<"1", "2">>, <<"2", "4">>),
      <<"2", "0", "2", "4", "0", "1", "0", "1">> }

Args(weeks) ==
    [schedule_name : {"Primary On-Call"},
     current_user_week : weeks,
     other_user_username : {"bob@example.com"},
     other_user_week : weeks,
     dry_run : BOOLEAN]

(***************************************************************************)
(* State.                                                                  *)
(***************************************************************************)
VARIABLES
    args,                     \* main's parameters
    pc,                       \* the statement of main the run is at
    exception,                \* the exception that ended the run, or None
    current_user,             \* main's locals
    other_user,
    schedule_id,
    current_user_end_date,
    other_user_end_date,
    current_user_week_shifts,
    current_user_shifts,
    other_user_week_shifts,
    other_user_shifts,
    i,                        \* swap_shifts: index of the shift of the loop
    requests,                 \* the HTTP requests this run has sent
    log,                      \* the logging.info and logging.error calls
    overrides,                \* remote: the overrides created so far
    rendered,                 \* remote: the entries it renders per window
    run                       \* which run of the tool this is

locals ==
    <<current_user, other_user, schedule_id, current_user_end_date,
      other_user_end_date, current_user_week_shifts, current_user_shifts,
      other_user_week_shifts, other_user_shifts, i>>

vars == <<args, pc, exception, locals, requests, log, overrides, rendered, run>>

Ended == pc \in {"returned", "raised"}

(***************************************************************************)
(* Requests, log records and the pure parts of the functions.              *)
(***************************************************************************)
\* an exception of requests: a connection error, raise_for_status() on a
\* 4xx or 5xx answer, or a body without the expected keys
HTTPError == [type |-> "HTTPError"]

Get(url, params) == [method |-> "GET", url |-> url, params |-> params]

Post(url, json) == [method |-> "POST", url |-> url, json |-> json]

Info(msg, a) == [level |-> "INFO", msg |-> msg, args |-> a]

Error(msg) == [level |-> "ERROR", msg |-> msg, args |-> <<>>]

\* lines 36-42 and 52-58: the first match, or None
first_user(users) == IF users # <<>> THEN users[1] ELSE None

first_schedule_id(schedules) ==
    IF schedules # <<>> THEN Str(schedules[1].id) ELSE None

\* a check that never finds the user missing
user_missing_never(user) == FALSE

\* a check that never finds the schedule missing
schedule_missing_never(id) == FALSE

\* line 106, `if not other_user`, and line 111, `if not schedule_id`
user_missing(user) == ~Truthy(user)

schedule_missing(id) == ~Truthy(id)

\* a filter that builds its list back to front
RECURSIVE filter_shifts_reversed(_, _)
filter_shifts_reversed(shifts, user) ==
    IF shifts = <<>> THEN <<>>
    ELSE LET rest == filter_shifts_reversed(Tail(shifts), user)
         IN  IF Head(shifts).user.id = user.id
             THEN rest \o <<Head(shifts)>>
             ELSE rest

\* lines 121 and 123: [shift for shift in shifts if shift['user']['id'] == user['id']]
RECURSIVE filter_shifts(_, _)
filter_shifts(shifts, user) ==
    IF shifts = <<>> THEN <<>>
    ELSE LET rest == filter_shifts(Tail(shifts), user)
         IN  IF Head(shifts).user.id = user.id
             THEN <<Head(shifts)>> \o rest
             ELSE rest

\* lines 63-64: the request of get_schedule
get_schedule_request(id, start_date, end_date_) ==
    Get(<<"schedules", id.value>>,
        [since |-> start_date, until |-> end_date_, time_zone |-> "UTC"])

\* lines 75-80: the body of the override
override_json(user, start, end) ==
    [override |->
        [user |-> [id |-> user.id, type |-> "user_reference"],
         start |-> start, end |-> end, type |-> "schedule_override"]]

\* a create_override that ignores dry_run
sends_request_always(dry_run, json) == TRUE

\* a create_override that skips an override the remote already holds
sends_request_unless_exists(dry_run, json) ==
    ~dry_run /\ \A k \in 1..Len(overrides) : overrides[k] # json

\* line 81: whether create_override sends its request
sends_request(dry_run, json) == ~dry_run

\* a swap_shifts that gives every shift back to its own user
override_user_unswapped(loop) ==
    IF loop = "swap_current" THEN current_user ELSE other_user

\* lines 95 and 98: the user each loop of swap_shifts gives the shift to
override_user(loop) ==
    IF loop = "swap_current" THEN other_user ELSE current_user

loop_shifts(loop, current_shifts, other_shifts) ==
    IF loop = "swap_current" THEN current_shifts ELSE other_shifts

\* a swap_shifts that runs the loop over the other user's shifts first
position_after_other_first(loop, idx, current_shifts, other_shifts) ==
    IF loop \in {"enter", "swap_other"}
          /\ (IF loop = "enter" THEN 0 ELSE idx) < Len(other_shifts)
    THEN <<"swap_other", (IF loop = "enter" THEN 0 ELSE idx) + 1>>
    ELSE IF (IF loop = "swap_current" THEN idx ELSE 0) < Len(current_shifts)
    THEN <<"swap_current", (IF loop = "swap_current" THEN idx ELSE 0) + 1>>
    ELSE <<"returned", 0>>

\* lines 94-98: where swap_shifts goes after iteration idx of `loop`
\* ("enter": on entering swap_shifts); <<statement, index>>
position_after(loop, idx, current_shifts, other_shifts) ==
    IF loop \in {"enter", "swap_current"}
          /\ (IF loop = "enter" THEN 0 ELSE idx) < Len(current_shifts)
    THEN <<"swap_current", (IF loop = "enter" THEN 0 ELSE idx) + 1>>
    ELSE IF (IF loop = "swap_other" THEN idx ELSE 0) < Len(other_shifts)
    THEN <<"swap_other", (IF loop = "swap_other" THEN idx ELSE 0) + 1>>
    ELSE <<"returned", 0>>

\* a swap_shifts that logs a failed create_override and goes on
position_on_error_continue(loop, idx) ==
    IF loop = "swap_current" /\ idx < Len(current_user_shifts)
    THEN <<"swap_current", idx + 1>>
    ELSE IF loop = "swap_current" /\ other_user_shifts # <<>>
    THEN <<"swap_other", 1>>
    ELSE IF loop = "swap_other" /\ idx < Len(other_user_shifts)
    THEN <<"swap_other", idx + 1>>
    ELSE <<"returned", 0>>

\* a create_override that sends a failed request again
position_on_error_retry(loop, idx) == <<loop, idx>>

\* lines 25, 35, 51, 67, 87: no function catches the exception of a request,
\* so it ends the run wherever it is raised
position_on_error(loop, idx) == <<"raised", 0>>

(***************************************************************************)
(* The remote service.                                                     *)
(***************************************************************************)
\* the final schedule: an entry that an override covers exactly is
\* rendered with the override's user (the latest such override)
RECURSIVE apply_overrides(_, _)
apply_overrides(entries, created) ==
    IF created = <<>> THEN entries
    ELSE LET o == Head(created).override
         IN  apply_overrides(
                 [k \in 1..Len(entries) |->
                     IF entries[k].start = o.start /\ entries[k].end = o.end
                     THEN [entries[k] EXCEPT !.user = [id |-> o.user.id]]
                     ELSE entries[k]],
                 Tail(created))

\* what the remote may answer to a render of `window`: any list of `pool`
\* the first time, and from then on that list, with or without the
\* overrides created since
renders(window, pool) ==
    IF window \in DOMAIN rendered
    THEN {rendered[window], apply_overrides(rendered[window], overrides)}
    ELSE pool

remember(window, entries) ==
    IF window \in DOMAIN rendered THEN rendered
    ELSE [w \in DOMAIN rendered \cup {window} |->
             IF w = window THEN entries ELSE rendered[w]]

(***************************************************************************)
(* Initial states.                                                         *)
(***************************************************************************)
InitRun(a) ==
    /\ args = a
    /\ pc = "get_current_user"
    /\ exception = None
    /\ current_user = None
    /\ other_user = None
    /\ schedule_id = None
    /\ current_user_end_date = None
    /\ other_user_end_date = None
    /\ current_user_week_shifts = <<>>
    /\ current_user_shifts = <<>>
    /\ other_user_week_shifts = <<>>
    /\ other_user_shifts = <<>>
    /\ i = 0
    /\ requests = <<>>
    /\ log = <<>>
    /\ overrides = <<>>
    /\ rendered = <<>>
    /\ run = 1

Init == \E a \in Args(Weeks) : InitRun(a)

InitDates == \E a \in Args(BoundaryWeeks) : InitRun(a)

(***************************************************************************)
(* The steps of main.                                                      *)
(***************************************************************************)
Goto(position) == pc' = position[1] /\ i' = position[2]

Raise(e) == pc' = "raised" /\ i' = 0 /\ exception' = e

\* lines 103-104: get_current_user()
GetCurrentUser ==
    /\ pc = "get_current_user"
    /\ requests' = Append(requests, Get(<<"users", "me">>, <<>>))
    /\ log' = Append(log, Info("Script execution started...", <<>>))
    /\ \/ /\ Raise(HTTPError)
          /\ UNCHANGED current_user
       \/ /\ current_user' = Me
          /\ pc' = "get_user_by_username"
          /\ UNCHANGED <<exception, i>>
    /\ UNCHANGED <<args, other_user, schedule_id, current_user_end_date,
                   other_user_end_date, current_user_week_shifts,
                   current_user_shifts, other_user_week_shifts,
                   other_user_shifts, overrides, rendered, run>>

\* lines 105-108: get_user_by_username(other_user_username) and the check
GetUserByUsername ==
    /\ pc = "get_user_by_username"
    /\ requests' = Append(requests,
           Get(<<"users">>, [query |-> args.other_user_username]))
    /\ \/ /\ Raise(HTTPError)
          /\ log' = Append(log, Info("Searching for user by username",
                                     <<args.other_user_username>>))
          /\ UNCHANGED other_user
       \/ \E users \in UserMatches :
            /\ other_user' = first_user(users)
            /\ log' = log
                 \o <<Info("Searching for user by username",
                           <<args.other_user_username>>)>>
                 \o (IF users = <<>>
                     THEN <<Error("No user found with that username.")>>
                     ELSE <<>>)
                 \o (IF user_missing(other_user')
                     THEN <<Error("Unable to find other user.")>>
                     ELSE <<>>)
            /\ pc' = IF user_missing(other_user') THEN "returned"
                     ELSE "get_schedule_id_by_name"
            /\ UNCHANGED <<exception, i>>
    /\ UNCHANGED <<args, current_user, schedule_id, current_user_end_date,
                   other_user_end_date, current_user_week_shifts,
                   current_user_shifts, other_user_week_shifts,
                   other_user_shifts, overrides, rendered, run>>

\* lines 110-113: get_schedule_id_by_name(schedule_name) and the check
GetScheduleIdByName ==
    /\ pc = "get_schedule_id_by_name"
    /\ requests' = Append(requests,
           Get(<<"schedules">>, [query |-> args.schedule_name]))
    /\ \/ /\ Raise(HTTPError)
          /\ log' = Append(log, Info("Searching for schedule by name",
                                     <<args.schedule_name>>))
          /\ UNCHANGED schedule_id
       \/ \E schedules \in ScheduleMatches :
            /\ schedule_id' = first_schedule_id(schedules)
            /\ log' = log
                 \o <<Info("Searching for schedule by name",
                           <<args.schedule_name>>)>>
                 \o (IF schedules = <<>>
                     THEN <<Error("No schedule found with that name.")>>
                     ELSE <<>>)
                 \o (IF schedule_missing(schedule_id')
                     THEN <<Error("Unable to find schedule.")>>
                     ELSE <<>>)
            /\ pc' = IF schedule_missing(schedule_id') THEN "returned"
                     ELSE "end_dates"
            /\ UNCHANGED <<exception, i>>
    /\ UNCHANGED <<args, current_user, other_user, current_user_end_date,
                   other_user_end_date, current_user_week_shifts,
                   current_user_shifts, other_user_week_shifts,
                   other_user_shifts, overrides, rendered, run>>

\* lines 115-118: the two end dates; strptime or the addition may raise
EndDates ==
    /\ pc = "end_dates"
    /\ \E current_end \in end_date(args.current_user_week) :
          IF IsError(current_end)
          THEN /\ Raise(current_end)
               /\ UNCHANGED <<current_user_end_date, other_user_end_date>>
          ELSE \E other_end \in end_date(args.other_user_week) :
                 IF IsError(other_end)
                 THEN /\ Raise(other_end)
                      /\ current_user_end_date' = current_end
                      /\ UNCHANGED other_user_end_date
                 ELSE /\ current_user_end_date' = current_end
                      /\ other_user_end_date' = other_end
                      /\ pc' = "get_schedule_current"
                      /\ UNCHANGED <<exception, i>>
    /\ UNCHANGED <<args, current_user, other_user, schedule_id,
                   current_user_week_shifts, current_user_shifts,
                   other_user_week_shifts, other_user_shifts, requests, log,
                   overrides, rendered, run>>

\* lines 120-121: get_schedule for the current user's window, and the filter
GetScheduleCurrent(pool) ==
    /\ pc = "get_schedule_current"
    /\ LET start_date == args.current_user_week
           until == current_user_end_date.value
       IN  /\ requests' = Append(requests,
                  get_schedule_request(schedule_id, start_date, until))
           /\ log' = Append(log, Info("Fetching schedule",
                                      <<start_date, until, schedule_id.value>>))
           /\ \/ /\ Raise(HTTPError)
                 /\ UNCHANGED <<current_user_week_shifts, current_user_shifts,
                                rendered>>
              \/ \E entries \in renders(<<start_date, until>>, pool) :
                   /\ rendered' = remember(<<start_date, until>>, entries)
                   /\ current_user_week_shifts' = entries
                   /\ current_user_shifts' = filter_shifts(entries, current_user)
                   /\ pc' = "get_schedule_other"
                   /\ UNCHANGED <<exception, i>>
    /\ UNCHANGED <<args, current_user, other_user, schedule_id,
                   current_user_end_date, other_user_end_date,
                   other_user_week_shifts, other_user_shifts, overrides, run>>

\* lines 122-125: get_schedule for the other user's window, the filter, and
\* the call of swap_shifts up to its first create_override
GetScheduleOther(pool) ==
    /\ pc = "get_schedule_other"
    /\ LET start_date == args.other_user_week
           until == other_user_end_date.value
       IN  /\ requests' = Append(requests,
                  get_schedule_request(schedule_id, start_date, until))
           /\ \/ /\ Raise(HTTPError)
                 /\ log' = Append(log, Info("Fetching schedule",
                                <<start_date, until, schedule_id.value>>))
                 /\ UNCHANGED <<other_user_week_shifts, other_user_shifts,
                                rendered>>
              \/ \E entries \in renders(<<start_date, until>>, pool) :
                   /\ rendered' = remember(<<start_date, until>>, entries)
                   /\ other_user_week_shifts' = entries
                   /\ other_user_shifts' = filter_shifts(entries, other_user)
                   /\ log' = log
                        \o <<Info("Fetching schedule",
                                  <<start_date, until, schedule_id.value>>),
                             Info("Starting shift swap process...", <<>>)>>
                   /\ Goto(position_after("enter", 0, current_user_shifts,
                                          other_user_shifts'))
                   /\ UNCHANGED exception
    /\ UNCHANGED <<args, current_user, other_user, schedule_id,
                   current_user_end_date, other_user_end_date,
                   current_user_week_shifts, current_user_shifts, overrides,
                   run>>

\* lines 94-98 with lines 72-88: one iteration of a loop of swap_shifts,
\* that is one call of create_override
CreateOverride ==
    /\ pc \in {"swap_current", "swap_other"}
    /\ LET shift == loop_shifts(pc, current_user_shifts, other_user_shifts)[i]
           user == override_user(pc)
           json == override_json(user, shift.start, shift.end)
           next == position_after(pc, i, current_user_shifts,
                                  other_user_shifts)
       IN  IF ~sends_request(args.dry_run, json)
           THEN /\ log' = Append(log,
                       Info("Dry Run: Would create override",
                            <<user.summary, shift.start, shift.end,
                              schedule_id.value>>))
                /\ Goto(next)
                /\ UNCHANGED <<requests, overrides, exception>>
           ELSE /\ log' = Append(log,
                       Info("Creating override",
                            <<user.summary, shift.start, shift.end,
                              schedule_id.value>>))
                /\ requests' = Append(requests,
                       Post(<<"schedules", schedule_id.value, "overrides">>,
                            json))
                /\ \/ /\ overrides' = Append(overrides, json)
                      /\ Goto(next)
                      /\ UNCHANGED exception
                   \/ \* the request fails; the remote may have created the
                      \* override all the same (a lost answer, a 5xx)
                      /\ overrides' \in {overrides, Append(overrides, json)}
                      /\ Goto(position_on_error(pc, i))
                      /\ exception' = HTTPError
    /\ UNCHANGED <<args, current_user, other_user, schedule_id,
                   current_user_end_date, other_user_end_date,
                   current_user_week_shifts, current_user_shifts,
                   other_user_week_shifts, other_user_shifts, rendered, run>>

\* the tool is run again with the same arguments: a new process, the same
\* remote service
Rerun ==
    /\ Ended
    /\ run < MaxRuns
    /\ run' = run + 1
    /\ pc' = "get_current_user"
    /\ exception' = None
    /\ current_user' = None
    /\ other_user' = None
    /\ schedule_id' = None
    /\ current_user_end_date' = None
    /\ other_user_end_date' = None
    /\ current_user_week_shifts' = <<>>
    /\ current_user_shifts' = <<>>
    /\ other_user_week_shifts' = <<>>
    /\ other_user_shifts' = <<>>
    /\ i' = 0
    /\ requests' = <<>>
    /\ log' = <<>>
    /\ UNCHANGED <<args, overrides, rendered>>

\* one run of the tool, against every answer of the remote within the bounds
Next ==
    \/ GetCurrentUser
    \/ GetUserByUsername
    \/ GetScheduleIdByName
    \/ EndDates
    \/ GetScheduleCurrent(RenderedEntries)
    \/ GetScheduleOther(RenderedEntries)
    \/ CreateOverride

Spec == Init /\ [][Next]_vars

\* the tool run again and again, over the boundary dates, against a remote
\* that renders few entries
NextDates ==
    \/ GetCurrentUser
    \/ GetUserByUsername
    \/ GetScheduleIdByName
    \/ EndDates
    \/ GetScheduleCurrent(FewRenderedEntries)
    \/ GetScheduleOther(FewRenderedEntries)
    \/ CreateOverride
    \/ Rerun

SpecDates == InitDates /\ [][NextDates]_vars

(***************************************************************************)
(* What the claims speak of, read off the state.                           *)
(***************************************************************************)
IsCurrentUserRequest(r) == r.method = "GET" /\ r.url = <<"users", "me">>

IsUserSearch(r) == r.method = "GET" /\ r.url = <<"users">>

IsScheduleSearch(r) == r.method = "GET" /\ r.url = <<"schedules">>

IsRender(r) ==
    r.method = "GET" /\ Len(r.url) = 2 /\ r.url[1] = "schedules"

IsCreate(r) ==
    r.method = "POST" /\ Len(r.url) = 3 /\ r.url[1] = "schedules"
        /\ r.url[3] = "overrides"

Renders == SelectSeq(requests, IsRender)

Creates == SelectSeq(requests, IsCreate)

IsDryRunRecord(l) == l.msg = "Dry Run: Would create override"

DryRunRecords == SelectSeq(log, IsDryRunRecord)

Last(seq) == seq[Len(seq)]

IsPrefix(a, b) == Len(a) <= Len(b) /\ SubSeq(b, 1, Len(a)) = a

\* both loops of swap_shifts ran to their end
SwapFinished == pc = "returned" /\ other_user # None /\ schedule_id # None

\* the creation request that gives the interval of `shift` to the user `uid`
CreationOf(uid, shift) ==
    [method |-> "POST",
     url |-> <<"schedules", schedule_id.value, "overrides">>,
     json |-> [override |->
                 [user |-> [id |-> uid, type |-> "user_reference"],
                  start |-> shift.start, end |-> shift.end,
                  type |-> "schedule_override"]]]

\* the creation requests of a whole swap, in the order of the loops
SwapCreations ==
    [k \in 1..Len(current_user_shifts) |->
        CreationOf(other_user.id, current_user_shifts[k])]
    \o [k \in 1..Len(other_user_shifts) |->
        CreationOf(current_user.id, other_user_shifts[k])]

\* the dry-run records of a whole swap
SwapDryRunRecords ==
    [k \in 1..Len(current_user_shifts) |->
        Info("Dry Run: Would create override",
             <<other_user.summary, current_user_shifts[k].start,
               current_user_shifts[k].end, schedule_id.value>>)]
    \o [k \in 1..Len(other_user_shifts) |->
        Info("Dry Run: Would create override",
             <<current_user.summary, other_user_shifts[k].start,
               other_user_shifts[k].end, schedule_id.value>>)]

(***************************************************************************)
(* C1.  In a dry run no override creation request is ever sent and the     *)
(* remote's overrides stay as they were; create_override only logs the     *)
(* intended change and never raises: no dry run ends by an exception once  *)
(* a shift has been handled, and a dry run that reaches the end of         *)
(* swap_shifts has logged exactly one intended change per shift.           *)
(***************************************************************************)
C1_DryRunWritesNothing ==
    args.dry_run =>
        /\ Creates = <<>>
        /\ \A k \in 1..Len(requests) : requests[k].method = "GET"
        /\ overrides = <<>>
        /\ pc = "raised" => DryRunRecords = <<>>
        /\ pc \in {"swap_current", "swap_other"} =>
              IsPrefix(DryRunRecords, SwapDryRunRecords)
        /\ SwapFinished => DryRunRecords = SwapDryRunRecords

C1_Witness ==
    /\ args.dry_run
    /\ SwapFinished
    /\ Len(current_user_shifts) >= 1
    /\ Len(other_user_shifts) >= 1
    /\ Len(DryRunRecords) = Len(current_user_shifts) + Len(other_user_shifts)
    /\ Len(requests) = 5

(***************************************************************************)
(* C2.  When both loops of swap_shifts have run to their end, the          *)
(* creation requests sent are exactly one per shift of the current user,   *)
(* with the shift's start and end and the other user's id, followed by     *)
(* one per shift of the other user, with the current user's id; in a dry   *)
(* run the same holds of the logged intended changes.  The remote then     *)
(* holds exactly these overrides.                                          *)
(***************************************************************************)
C2_OneOverridePerShift ==
    SwapFinished =>
        IF args.dry_run
        THEN DryRunRecords = SwapDryRunRecords /\ Creates = <<>>
        ELSE /\ Creates = SwapCreations
             /\ overrides = [k \in 1..Len(Creates) |-> Creates[k].json]

\* the scenario of the specification: U1's week of 2024-01-01 against U2's
\* week of 2024-01-08
C2_Witness ==
    /\ ~args.dry_run
    /\ args.current_user_week = Week1
    /\ args.other_user_week = Week2
    /\ SwapFinished
    /\ current_user.id = "U1"
    /\ other_user.id = "U2"
    /\ schedule_id = Str("PSCHED1")
    /\ current_user_shifts =
          <<[user |-> [id |-> "U1"], start |-> "2024-01-01T00:00:00Z",
             end |-> "2024-01-08T00:00:00Z"]>>
    /\ other_user_shifts =
          <<[user |-> [id |-> "U2"], start |-> "2024-01-08T00:00:00Z",
             end |-> "2024-01-15T00:00:00Z"]>>
    /\ Len(Creates) = 2
    /\ Creates[1].json.override.user.id = "U2"
    /\ Creates[1].json.override.start = "2024-01-01T00:00:00Z"
    /\ Creates[1].json.override.end = "2024-01-08T00:00:00Z"
    /\ Creates[2].json.override.user.id = "U1"
    /\ Creates[2].json.override.start = "2024-01-08T00:00:00Z"
    /\ Creates[2].json.override.end = "2024-01-15T00:00:00Z"

(***************************************************************************)
(* C3.  When the user search has been answered with no match, the run has  *)
(* returned without an exception, and the two requests sent before (the    *)
(* current user, the user search) are all it sent: no schedule search, no  *)
(* render, no override.                                                    *)
(***************************************************************************)
UserSearchAnswered ==
    Len(requests) >= 2 /\ ~(pc = "raised" /\ Len(requests) = 2)

C3_NoUserNoCalls ==
    (UserSearchAnswered /\ other_user = None) =>
        /\ pc = "returned"
        /\ exception = None
        /\ Len(requests) = 2
        /\ Renders = <<>>
        /\ Creates = <<>>
        /\ overrides = <<>>

C3_Witness ==
    /\ UserSearchAnswered
    /\ other_user = None
    /\ pc = "returned"
    /\ IsUserSearch(Last(requests))
    /\ Last(log) = Error("Unable to find other user.")

(***************************************************************************)
(* C4.  When the schedule search has been answered with no match, the run  *)
(* has returned and sent no render and no override creation request,       *)
(* whoever the users are and whether or not the run is a dry run.          *)
(***************************************************************************)
ScheduleSearchAnswered ==
    Len(requests) >= 3 /\ ~(pc = "raised" /\ Len(requests) = 3)

C4_NoScheduleNoCalls ==
    (ScheduleSearchAnswered /\ schedule_id = None) =>
        /\ pc = "returned"
        /\ exception = None
        /\ Len(requests) = 3
        /\ Renders = <<>>
        /\ Creates = <<>>
        /\ overrides = <<>>

C4_Witness ==
    /\ ScheduleSearchAnswered
    /\ schedule_id = None
    /\ other_user # None
    /\ ~args.dry_run
    /\ pc = "returned"
    /\ IsScheduleSearch(Last(requests))
    /\ Last(log) = Error("Unable to find schedule.")

(***************************************************************************)
(* C5.  Without dry run, at most one creation request is unanswered by a   *)
(* created override, and then it is the last request of the run, which     *)
(* has ended by the exception: after a failed creation nothing more is     *)
(* sent.  The overrides the remote holds are those of the requests sent    *)
(* before, in order; none is ever removed, and the program sends nothing   *)
(* but GET requests and creation requests.                                 *)
(***************************************************************************)
CreatedJson == [k \in 1..Len(Creates) |-> Creates[k].json]

C5_FailureState ==
    /\ \A k \in 1..Len(requests) :
          requests[k].method = "GET" \/ IsCreate(requests[k])
    /\ IsPrefix(overrides, CreatedJson)
    /\ Len(Creates) <= Len(overrides) + 1
    /\ Len(Creates) > Len(overrides) =>
          /\ pc = "raised"
          /\ exception = HTTPError
          /\ IsCreate(Last(requests))
    /\ exception # None => pc = "raised"

C5_FailureStep ==
    /\ exception # None => requests' = requests
    /\ IsPrefix(overrides, overrides')

C5_NoWriteAfterFailure == [](C5_FailureState) /\ [][C5_FailureStep]_vars

C5_Witness ==
    /\ ~args.dry_run
    /\ pc = "raised"
    /\ IsCreate(Last(requests))
    /\ Len(overrides) >= 1
    /\ Len(overrides) = Len(Creates) - 1
    /\ Len(Creates) < Len(current_user_shifts) + Len(other_user_shifts)

(***************************************************************************)
(* C6.  The first render request asks for since = --current_user_week and  *)
(* the second for since = --other_user_week, each exactly as given on the  *)
(* command line, with until = the day eight calendar days after it,        *)
(* written YYYY-MM-DD, and time_zone = UTC; 2024-01-01 gives 2024-01-09.   *)
(* The eight days are counted here one day at a time over the calendar.    *)
(***************************************************************************)
CalendarDays(y, m) ==
    CASE m \in {4, 6, 9, 11} -> 30
      [] m = 2 -> IF (y % 4 = 0 /\ y % 100 # 0) \/ y % 400 = 0 THEN 29 ELSE 28
      [] OTHER -> 31

DayAfter(date) ==
    IF date.day < CalendarDays(date.year, date.month)
    THEN [date EXCEPT !.day = @ + 1]
    ELSE IF date.month < 12
    THEN [year |-> date.year, month |-> date.month + 1, day |-> 1]
    ELSE [year |-> date.year + 1, month |-> 1, day |-> 1]

RECURSIVE DaysLater(_, _)
DaysLater(date, n) == IF n = 0 THEN date ELSE DaysLater(DayAfter(date), n - 1)

\* the fields of s between its dashes
RECURSIVE Fields(_)
Fields(s) ==
    IF \A k \in 1..Len(s) : s[k] # "-" THEN <<s>>
    ELSE LET cut == CHOOSE k \in 1..Len(s) :
                        s[k] = "-" /\ \A j \in 1..(k - 1) : s[j] # "-"
         IN  <<SubSeq(s, 1, cut - 1)>> \o Fields(SubSeq(s, cut + 1, Len(s)))

ReadNumber(field) == NumVal(SelectSeq(field, IsDigit))

ReadDate(s) ==
    [year |-> ReadNumber(Fields(s)[1]), month |-> ReadNumber(Fields(s)[2]),
     day |-> ReadNumber(Fields(s)[3])]

Written(date) ==
    << Digits[(date.year \div 1000) + 1], Digits[((date.year \div 100) % 10) + 1],
       Digits[((date.year \div 10) % 10) + 1], Digits[(date.year % 10) + 1],
       "-", Digits[(date.month \div 10) + 1], Digits[(date.month % 10) + 1],
       "-", Digits[(date.day \div 10) + 1], Digits[(date.day % 10) + 1] >>

C6_EightDaysByValue ==
    \A k \in 1..Len(Renders) :
        LET since == IF k = 1 THEN args.current_user_week
                     ELSE args.other_user_week
            params == Renders[k].params
            day == DaysLater(ReadDate(since), 8)
        IN  /\ params.since = since
            /\ ReadDate(params.until) = day
            /\ day.year >= 1000 => params.until = Written(day)

\* a window over the end of a year and one over the end of a leap February
C6_Windows ==
    /\ Len(Renders) = 2
    /\ Renders[1].params.since =
          D(<<"2", "0", "2", "3">>, <<"1", "2">>, <<"2", "5">>)
    /\ Renders[1].params.until =
          D(<<"2", "0", "2", "4">>, <<"0", "1">>, <<"0", "2">>)
    /\ Renders[2].params.since =
          D(<<"2", "0", "2", "4">>, <<"0", "2">>, <<"2", "2">>)
    /\ Renders[2].params.until =
          D(<<"2", "0", "2", "4">>, <<"0", "3">>, <<"0", "1">>)

(***************************************************************************)
(* C7.  The program never asks the remote for its overrides: every request *)
(* is one of the four GET requests or a creation request.  And without dry *)
(* run every call of create_override sends its creation request, whatever  *)
(* overrides the remote already holds: run again after a finished swap,    *)
(* the tool creates the overrides that the rendered entries call for once  *)
(* more.                                                                   *)
(***************************************************************************)
C7_KnownRequests ==
    \A k \in 1..Len(requests) :
        \/ IsCurrentUserRequest(requests[k])
        \/ IsUserSearch(requests[k])
        \/ IsScheduleSearch(requests[k])
        \/ IsRender(requests[k])
        \/ IsCreate(requests[k])

C7_CreateStep ==
    (pc \in {"swap_current", "swap_other"} /\ ~args.dry_run) =>
        requests' = Append(requests,
            IF pc = "swap_current"
            THEN CreationOf(other_user.id, current_user_shifts[i])
            ELSE CreationOf(current_user.id, other_user_shifts[i]))

C7_CreatesWhateverExists == [](C7_KnownRequests) /\ [][C7_CreateStep]_vars

Occurrences(seq, x) == Cardinality({k \in 1..Len(seq) : seq[k] = x})

\* a second run has created every override of its swap a second time
C7_Witness ==
    /\ run = 2
    /\ ~args.dry_run
    /\ SwapFinished
    /\ Len(Creates) >= 2
    /\ Creates = SwapCreations
    /\ Len(overrides) = 2 * Len(Creates)
    /\ \A k \in 1..Len(Creates) :
          Occurrences(overrides, Creates[k].json)
              = 2 * Occurrences(CreatedJson, Creates[k].json)

(***************************************************************************)
(* C8.  The requests of a run are, in this order: the current user, the    *)
(* user search, the schedule search, the render of the current user's      *)
(* window, the render of the other user's window, then the creations for   *)
(* the current user's shifts (given to the other user) and after them the  *)
(* creations for the other user's shifts (given to the current user); a    *)
(* dry run logs its intended changes in that order.  The run never moves   *)
(* back to an earlier statement, and once it has returned or raised it     *)
(* sends nothing more.                                                     *)
(***************************************************************************)
Statements ==
    <<"get_current_user", "get_user_by_username", "get_schedule_id_by_name",
      "end_dates", "get_schedule_current", "get_schedule_other",
      "swap_current", "swap_other", "returned">>

Rank(p) ==
    IF p = "raised" THEN Len(Statements)
    ELSE CHOOSE k \in 1..Len(Statements) : Statements[k] = p

\* how many requests have been sent when the run is at each of the first
\* six statements
RequestsBefore == <<0, 1, 2, 3, 3, 4>>

C8_RequestOrder ==
    /\ \A k \in 1..Len(requests) :
          CASE k = 1 -> IsCurrentUserRequest(requests[k])
            [] k = 2 -> /\ IsUserSearch(requests[k])
                        /\ requests[k].params.query = args.other_user_username
            [] k = 3 -> /\ IsScheduleSearch(requests[k])
                        /\ requests[k].params.query = args.schedule_name
            [] k = 4 -> /\ IsRender(requests[k])
                        /\ requests[k].params.since = args.current_user_week
            [] k = 5 -> /\ IsRender(requests[k])
                        /\ requests[k].params.since = args.other_user_week
            [] OTHER -> /\ k - 5 <= Len(SwapCreations)
                        /\ requests[k] = SwapCreations[k - 5]
    /\ DryRunRecords # <<>> =>
          /\ Len(requests) = 5
          /\ IsPrefix(DryRunRecords, SwapDryRunRecords)
    /\ Rank(pc) <= 6 => Len(requests) = RequestsBefore[Rank(pc)]
    /\ pc = "swap_current" =>
          Len(requests) = 5 + (IF args.dry_run THEN 0 ELSE i - 1)
    /\ pc = "swap_other" =>
          Len(requests) = 5 + (IF args.dry_run THEN 0
                               ELSE Len(current_user_shifts) + i - 1)

C8_Forward ==
    /\ Rank(pc') >= Rank(pc)
    /\ pc' = pc => i' = i + 1
    /\ pc \in {"returned", "raised"} => requests' = requests

C8_SequentialRun == [](C8_RequestOrder) /\ [][C8_Forward]_vars

C8_Witness ==
    /\ ~args.dry_run
    /\ SwapFinished
    /\ Len(current_user_shifts) = 2
    /\ Len(other_user_shifts) = 2
    /\ Len(requests) = 9
    /\ current_user.id # other_user.id

(***************************************************************************)
(* C9.  Once a window has been rendered, the shifts kept for its user are  *)
(* the entries of that window's answer whose user id is the user's, every  *)
(* one of them and no other, in the order of the answer: the current       *)
(* user's from the answer for --current_user_week, the other user's from   *)
(* the answer for --other_user_week.                                       *)
(***************************************************************************)
\* the entries of `entries` at the positions where the user is `uid`, in
\* the order of the positions
Kept(entries, uid) ==
    LET at == {k \in 1..Len(entries) : entries[k].user.id = uid}
    IN  [n \in 1..Cardinality(at) |->
            entries[CHOOSE k \in at : Cardinality({j \in at : j <= k}) = n]]

CurrentWindowRendered ==
    Len(requests) >= 4 /\ ~(pc = "raised" /\ Len(requests) = 4)

OtherWindowRendered ==
    Len(requests) >= 5 /\ ~(pc = "raised" /\ Len(requests) = 5)

C9_ShiftsAreTheUsersEntries ==
    /\ CurrentWindowRendered =>
          /\ current_user_week_shifts =
                rendered[<<args.current_user_week, Renders[1].params.until>>]
          /\ current_user_shifts =
                Kept(current_user_week_shifts, current_user.id)
    /\ OtherWindowRendered =>
          /\ other_user_week_shifts =
                rendered[<<args.other_user_week, Renders[2].params.until>>]
          /\ other_user_shifts = Kept(other_user_week_shifts, other_user.id)
    /\ ~CurrentWindowRendered => current_user_shifts = <<>>
    /\ ~OtherWindowRendered => other_user_shifts = <<>>

\* the later interval is rendered first and stays first; the other user's
\* window holds an entry of each user
C9_Witness ==
    /\ OtherWindowRendered
    /\ args.current_user_week # args.other_user_week
    /\ Len(current_user_week_shifts) = 2
    /\ current_user_week_shifts[1].start = "2024-01-08T00:00:00Z"
    /\ current_user_week_shifts[2].start = "2024-01-01T00:00:00Z"
    /\ current_user_shifts = current_user_week_shifts
    /\ Len(other_user_week_shifts) = 2
    /\ other_user_week_shifts[1].user.id = current_user.id
    /\ other_user_shifts = <<other_user_week_shifts[2]>>

(***************************************************************************)
(* C10.  A run sends at most one request for the current user, one user    *)
(* search, one schedule search, two renders, and no more creation requests *)
(* than the two lists of shifts have entries.                              *)
(***************************************************************************)
C10_RequestCounts ==
    /\ Len(SelectSeq(requests, IsCurrentUserRequest)) <= 1
    /\ Len(SelectSeq(requests, IsUserSearch)) <= 1
    /\ Len(SelectSeq(requests, IsScheduleSearch)) <= 1
    /\ Len(Renders) <= 2
    /\ Len(Creates) <= Len(current_user_shifts) + Len(other_user_shifts)
    /\ Len(requests) <= 5 + Len(current_user_shifts) + Len(other_user_shifts)

C10_Witness ==
    /\ ~args.dry_run
    /\ pc = "raised"
    /\ Len(Renders) = 2
    /\ Len(Creates) = Len(current_user_shifts) + Len(other_user_shifts)
    /\ Len(Creates) >= 3
    /\ Len(requests) = 5 + Len(Creates)

=============================================================================
